---- MODULE Spec2Model ----
(***************************************************************************)
(* Verification model of the omdenis/dotfiles desktop scripts.             *)
(*                                                                         *)
(*   Spec / FairSpec : the SpeakFlow tray application                      *)
(*                     (FedoraXFCE/bin/speakflow/*.py)                     *)
(*   SpecTg          : telegram_screenshot.py (config mode / normal mode)  *)
(*   SpecTr          : transcribe.py (output file naming)                  *)
(*   SpecUrl         : parse_telegram_topic_url as a function              *)
(*   SpecDl          : downloader.py (names of the downloads)              *)
(*   SpecYt / FairSpecYt : downloader.py (download_media and its retries)  *)
(*   SpecCv          : convert.py, convert_all_webinar.py,                 *)
(*                     convert_to_mp3.py, conver_to_telegram_small.py      *)
(***************************************************************************)
EXTENDS Integers, Sequences, FiniteSets, TLC

VARIABLES
    \* ---- SpeakFlow (speakflow/main.py) ----
    state,          \* SpeakFlow.state
    state_lock,     \* SpeakFlow.state_lock: "free" or the holder
    running,        \* SpeakFlow.running
    main_pc,        \* position of the main thread in main()/start()/quit()
    hk_pc,          \* position of the pynput listener thread in on_hotkey_pressed
    threads,        \* the _process_audio threads started so far, in order
    \* ---- collaborators ----
    model,          \* Transcriber.model is not None
    listener,       \* HotkeyListener.listener: "none", "running", "stopped"
    icon,           \* TrayIcon.icon: "none", "running", "stopped"
    current_state,  \* TrayIcon.current_state
    is_recording,   \* AudioRecorder.is_recording
    stream,         \* AudioRecorder.stream is an open InputStream
    recording,      \* AudioRecorder.recording holds at least one chunk
    \* ---- history ----
    ev,             \* the operation that made the last step
    presses,        \* hotkey callbacks invoked so far
    idle_presses,   \* hotkey callbacks that found state == idle
    start_calls,    \* AudioRecorder.start_recording() invocations so far
    quit_capturing, \* the recorder was capturing when quit() was called
    \* ---- telegram_screenshot.py ----
    tg_pc,          \* position of the current run of main()
    tg_link,        \* args.link of the current run
    tg_token,       \* BOT_TOKEN is set in ~/.env
    tg_config,      \* content of ~/.config/tgsnap/config.json
    tg_ids,         \* main()'s (chat_id, thread_id)
    tg_image,       \* content of ~/tmp/screenshot.png
    tg_shot,        \* take_screenshot() was called in the current run
    tg_bots,        \* telegram.Bot objects created in the current run
    tg_sent,        \* messages the Bot API accepted in the current run
    tg_runs,        \* runs of the script so far
    tg_saved,       \* the (chat_id, thread_id) of every completed save_config, in order
    \* ---- parse_telegram_topic_url as a function ----
    url_pc, url_in, url_fn, url_out,
    \* ---- transcribe.py ----
    tr_pc,          \* position in main()'s loop / transcribe_file
    tr_dir,         \* the output directory: file name -> content
    tr_orig,        \* the output directory when the run began
    tr_queue,       \* stems of the selected media files still to process
    tr_stem,        \* media_file.stem of the file in progress
    tr_target,      \* output_file of the file in progress
    tr_done,        \* output files written in this run: name -> content
    \* ---- downloader.py: main()'s loop over one .txt file ----
    dl_pc,          \* position in main()
    dl_lines,       \* the lines of the .txt file
    dl_urls,        \* extract_urls_from_file(txt_file)
    dl_index,       \* index of the enumerate(urls, start=1) loop
    dl_dir,         \* output_dir: file name -> content
    dl_orig,        \* output_dir when the run began
    dl_path,        \* output_path handed to download_media
    \* ---- downloader.py: one call of download_media ----
    yt_pc,          \* position in download_media and the function it retries with
    yt_youtube,     \* is_youtube_url(url)
    yt_cookies,     \* ./cookies.txt exists
    yt_strategy,    \* position of download_youtube_fallback's loop in strategies
    yt_then,        \* the function that called export_cookies_from_browser
    yt_result,      \* what download_media returned: "none" while it runs
    yt_log,         \* the yt-dlp runs so far: command and outcome
    yt_paths,       \* retry paths entered so far
    \* ---- the converters: convert.py, convert_all_webinar.py, ----
    \* ---- convert_to_mp3.py, conver_to_telegram_small.py      ----
    cv_pc,          \* position in main(): "loop" or "exited"
    cv_script,      \* the script, and for convert.py the conversion mode
    cv_inputs,      \* media_files / sys.argv[1:]
    cv_queue,       \* the inputs the for loop has not reached yet
    cv_dir,         \* the output files that exist
    cv_orig,        \* the output files that existed when the run began
    cv_log,         \* per input reached by the loop: its ffmpeg invocations
    cv_exit,        \* exit_code, then the process exit code
    cv_runs,        \* runs of the script over the directory so far
    cv_prev         \* exit code of the previous run

sfVars == <<state, state_lock, running, main_pc, hk_pc, threads, model, listener,
            icon, current_state, is_recording, stream, recording,
            ev, presses, idle_presses, start_calls, quit_capturing>>
tgVars == <<tg_pc, tg_link, tg_token, tg_config, tg_ids, tg_image, tg_shot,
            tg_bots, tg_sent, tg_runs, tg_saved>>
urlVars == <<url_pc, url_in, url_fn, url_out>>
trVars == <<tr_pc, tr_dir, tr_orig, tr_queue, tr_stem, tr_target, tr_done>>
dlVars == <<dl_pc, dl_lines, dl_urls, dl_index, dl_dir, dl_orig, dl_path>>
ytVars == <<yt_pc, yt_youtube, yt_cookies, yt_strategy, yt_then, yt_result, yt_log, yt_paths>>
cvVars == <<cv_pc, cv_script, cv_inputs, cv_queue, cv_dir, cv_orig, cv_log, cv_exit,
            cv_runs, cv_prev>>
extraVars == <<dlVars, ytVars, cvVars>>

vars == <<sfVars, tgVars, urlVars, trVars, extraVars>>

(***************************************************************************)
(* Bounds of the model.                                                    *)
(***************************************************************************)
MaxPresses == 5      \* hotkey presses in one run of SpeakFlow
MaxTextLen == 2      \* characters of a Whisper result

(***************************************************************************)
(* speakflow/config.py                                                     *)
(***************************************************************************)
IDLE == "idle"
RECORDING == "recording"
PROCESSING == "processing"
State == {IDLE, RECORDING, PROCESSING}

TEMP_AUDIO_FILE == "recording.wav"
NoFile == "None"            \* stop_recording() returned None
None == <<"None">>          \* transcribe() returned None

(***************************************************************************)
(* Text: strings are sequences of characters; str.strip() removes the      *)
(* leading and trailing whitespace.                                        *)
(***************************************************************************)
Chars == {" ", "a"}

\* the sequences over S of length at most n
SeqsUpTo(S, n) == UNION {[1..k -> S] : k \in 0..n}

Range(s) == {s[i] : i \in DOMAIN s}

\* the decimal digits of a natural number, most significant first
RECURSIVE DecimalDigits(_)
DecimalDigits(n) ==
    IF n < 10 THEN <<ToString(n)>>
    ELSE Append(DecimalDigits(n \div 10), ToString(n % 10))

DigitValue(c) == CHOOSE d \in 0..9 : ToString(d) = c

IsDigit(c) == \E d \in 0..9 : ToString(d) = c

Texts == SeqsUpTo(Chars, MaxTextLen)

RECURSIVE LStrip(_)
LStrip(s) == IF s # <<>> /\ Head(s) = " " THEN LStrip(Tail(s)) ELSE s

RECURSIVE RStrip(_)
RStrip(s) ==
    IF s # <<>> /\ s[Len(s)] = " " THEN RStrip(SubSeq(s, 1, Len(s) - 1)) ELSE s

Strip(s) == RStrip(LStrip(s))

(***************************************************************************)
(* SpeakFlow.on_hotkey_pressed: which branch a press takes.                *)
(***************************************************************************)
OnHotkeyBranchRestart(s) ==
    IF s = IDLE THEN "start" ELSE IF s = RECORDING THEN "stop" ELSE "start"

OnHotkeyBranchRespawn(s) ==
    IF s = IDLE THEN "start" ELSE "stop"

OnHotkeyBranch(s) ==
    IF s = IDLE THEN "start" ELSE IF s = RECORDING THEN "stop" ELSE "ignore"

\* SpeakFlow._start_recording: the state it leaves, by start_recording()'s result
AfterStartRecordingStuck(ok) == IF ok THEN RECORDING ELSE "failed"

AfterStartRecording(ok) == IF ok THEN RECORDING ELSE IDLE

\* TrayIcon.update_state(s): the value of current_state afterwards
UpdateState(s) == IF icon = "none" THEN current_state ELSE s

\* SpeakFlow._process_audio: where the thread goes after stop_recording()
AfterStopNoReset(audio_file) == IF audio_file = NoFile THEN "done" ELSE "transcribe"

AfterStop(audio_file) == IF audio_file = NoFile THEN "reset" ELSE "transcribe"

\* SpeakFlow._process_audio: the test that guards paste_text
ShouldPasteAnyText(text) == text # None

ShouldPaste(text) == ~(text = None \/ Strip(text) = <<>>)

\* Transcriber.transcribe: the value returned for Whisper's result["text"]
TranscribeResult(raw) == IF ~model THEN None ELSE Strip(raw)

NewThread == [pc |-> "stop", audio_file |-> NoFile, text |-> None, log |-> <<>>]

Active(i) == threads[i].pc # "done"

(***************************************************************************)
(* Init: the state after SpeakFlow() was constructed, main() about to call *)
(* app.start().                                                            *)
(***************************************************************************)
SfInit ==
    /\ state = IDLE
    /\ state_lock = "free"
    /\ running = TRUE
    /\ main_pc = "load_model"
    /\ hk_pc = "wait"
    /\ threads = <<>>
    /\ model = FALSE
    /\ listener = "none"
    /\ icon = "none"
    /\ current_state = IDLE
    /\ is_recording = FALSE
    /\ stream = FALSE
    /\ recording = FALSE
    /\ ev = "init"
    /\ presses = 0
    /\ idle_presses = 0
    /\ start_calls = 0
    /\ quit_capturing = FALSE

Alive == main_pc # "exited"

\* each program leaves the other programs' state alone
SfOnly == UNCHANGED <<tgVars, urlVars, trVars, extraVars>>
UrlOnly == UNCHANGED <<sfVars, tgVars, trVars, extraVars>>
TgOnly == UNCHANGED <<sfVars, urlVars, trVars, extraVars>>
TrOnly == UNCHANGED <<sfVars, tgVars, urlVars, extraVars>>

recVars == <<is_recording, stream, recording>>
histVars == <<presses, idle_presses, start_calls>>

(***************************************************************************)
(* Main thread: SpeakFlow.start                                            *)
(***************************************************************************)
\* start(): if not self.transcriber.load_model(): return False
AfterLoadModelIgnored(ok) == "start_listener"

AfterLoadModel(ok) == IF ok THEN "start_listener" ELSE "exited"

LoadModel ==
    /\ main_pc = "load_model"
    /\ \E ok \in BOOLEAN :
          /\ model' = ok
          /\ main_pc' = AfterLoadModel(ok)
    /\ ev' = "load_model"
    /\ SfOnly
    /\ UNCHANGED quit_capturing
    /\ UNCHANGED <<state, state_lock, running, hk_pc, threads, listener, icon,
                   current_state, recVars, histVars>>

StartListener ==
    /\ main_pc = "start_listener"
    /\ \E ok \in BOOLEAN :
          /\ listener' = IF ok THEN "running" ELSE "none"
          /\ main_pc' = IF ok THEN "tray_start" ELSE "exited"
    /\ ev' = "start_listener"
    /\ SfOnly
    /\ UNCHANGED quit_capturing
    /\ UNCHANGED <<state, state_lock, running, hk_pc, threads, model, icon,
                   current_state, recVars, histVars>>

\* TrayIcon.start up to icon.run(): pystray.Icon(...) is assigned to self.icon,
\* or raises and start() logs and returns
TrayStart ==
    /\ main_pc = "tray_start"
    /\ \E ok \in BOOLEAN :
          /\ icon' = IF ok THEN "running" ELSE "none"
          /\ main_pc' = IF ok THEN "tray_run" ELSE "exited"
    /\ ev' = "tray_start"
    /\ SfOnly
    /\ UNCHANGED quit_capturing
    /\ UNCHANGED <<state, state_lock, running, hk_pc, threads, model, listener,
                   current_state, recVars, histVars>>

\* AudioRecorder.stop_recording as quit() calls it
QuitStopsRecorder == state = RECORDING /\ is_recording

\* SpeakFlow.quit up to sys.exit: from the tray menu, or from main() on
\* KeyboardInterrupt during start()
Quit ==
    /\ main_pc \in {"load_model", "start_listener", "tray_start", "tray_run"}
    /\ running' = FALSE
    /\ listener' = IF listener = "running" THEN "stopped" ELSE listener
    /\ IF QuitStopsRecorder
          THEN is_recording' = FALSE /\ stream' = FALSE
          ELSE UNCHANGED <<is_recording, stream>>
    /\ icon' = IF icon = "running" THEN "stopped" ELSE icon
    /\ main_pc' = "quitting"
    /\ ev' = "quit"
    /\ quit_capturing' = (is_recording /\ stream)
    /\ SfOnly
    /\ UNCHANGED <<state, state_lock, hk_pc, threads, model, current_state,
                   recording, histVars>>

\* sys.exit(0): the process ends, daemon threads with it
Exit ==
    /\ main_pc = "quitting"
    /\ main_pc' = "exited"
    /\ ev' = "exit"
    /\ SfOnly
    /\ UNCHANGED quit_capturing
    /\ UNCHANGED <<state, state_lock, running, hk_pc, threads, model, listener,
                   icon, current_state, recVars, histVars>>

(***************************************************************************)
(* Listener thread: SpeakFlow.on_hotkey_pressed                            *)
(***************************************************************************)
HotkeyGuard ==
    /\ Alive
    /\ listener = "running"
    /\ hk_pc = "wait"
    /\ state_lock = "free"
    /\ presses < MaxPresses

\* state == IDLE: _start_recording up to the call of recorder.start_recording()
HotkeyStart ==
    /\ HotkeyGuard
    /\ OnHotkeyBranch(state) = "start"
    /\ state_lock' = "hotkey"
    /\ state' = RECORDING
    /\ current_state' = UpdateState(RECORDING)
    /\ hk_pc' = "start_rec"
    /\ presses' = presses + 1
    /\ idle_presses' = IF state = IDLE THEN idle_presses + 1 ELSE idle_presses
    /\ ev' = "hotkey_start"
    /\ SfOnly
    /\ UNCHANGED quit_capturing
    /\ UNCHANGED <<running, main_pc, threads, model, listener, icon, recVars,
                   start_calls>>

\* AudioRecorder.start_recording and the rest of _start_recording
StartRecording ==
    /\ Alive
    /\ hk_pc = "start_rec"
    /\ start_calls' = start_calls + 1
    /\ \E opened \in BOOLEAN :
          LET ok == ~is_recording /\ opened IN
          /\ IF is_recording
                THEN UNCHANGED recVars
                ELSE /\ recording' = FALSE
                     /\ is_recording' = opened
                     /\ stream' = opened
          /\ state' = AfterStartRecording(ok)
          /\ current_state' = IF ok THEN current_state
                              ELSE UpdateState(AfterStartRecording(ok))
          /\ ev' = IF ok THEN "start_ok" ELSE "start_failed"
    /\ state_lock' = "free"
    /\ hk_pc' = "wait"
    /\ SfOnly
    /\ UNCHANGED quit_capturing
    /\ UNCHANGED <<running, main_pc, threads, model, listener, icon, presses,
                   idle_presses>>

\* state == RECORDING: _stop_recording_and_process
HotkeyStop ==
    /\ HotkeyGuard
    /\ OnHotkeyBranch(state) = "stop"
    /\ state' = PROCESSING
    /\ current_state' = UpdateState(PROCESSING)
    /\ threads' = Append(threads, NewThread)
    /\ presses' = presses + 1
    /\ ev' = "hotkey_stop"
    /\ SfOnly
    /\ UNCHANGED quit_capturing
    /\ UNCHANGED <<state_lock, running, main_pc, hk_pc, model, listener, icon,
                   recVars, idle_presses, start_calls>>

\* any other state: the press is logged and dropped
HotkeyIgnore ==
    /\ HotkeyGuard
    /\ OnHotkeyBranch(state) = "ignore"
    /\ presses' = presses + 1
    /\ ev' = "hotkey_ignored"
    /\ SfOnly
    /\ UNCHANGED quit_capturing
    /\ UNCHANGED <<state, state_lock, running, main_pc, hk_pc, threads, model,
                   listener, icon, current_state, recVars, idle_presses,
                   start_calls>>

(***************************************************************************)
(* PortAudio thread: AudioRecorder._audio_callback                         *)
(***************************************************************************)
AudioCallback ==
    /\ Alive
    /\ stream
    /\ is_recording
    /\ ~recording
    /\ recording' = TRUE
    /\ ev' = "audio"
    /\ SfOnly
    /\ UNCHANGED quit_capturing
    /\ UNCHANGED <<state, state_lock, running, main_pc, hk_pc, threads, model,
                   listener, icon, current_state, is_recording, stream, histVars>>

(***************************************************************************)
(* Background thread i: SpeakFlow._process_audio                           *)
(***************************************************************************)
Step(i, pc, log) == [threads EXCEPT ![i].pc = pc, ![i].log = Append(@, log)]

\* self.recorder.stop_recording()
ProcStop ==
    \E i \in DOMAIN threads :
    /\ Alive
    /\ threads[i].pc = "stop"
    /\ \E closed \in BOOLEAN, written \in BOOLEAN :
          LET audio_file == IF is_recording /\ closed /\ recording /\ written
                            THEN TEMP_AUDIO_FILE ELSE NoFile
          IN /\ threads' = [Step(i, AfterStop(audio_file), "stop")
                               EXCEPT ![i].audio_file = audio_file]
             /\ stream' = IF is_recording /\ closed THEN FALSE ELSE stream
    /\ is_recording' = FALSE
    /\ ev' = "proc_stop"
    /\ SfOnly
    /\ UNCHANGED quit_capturing
    /\ UNCHANGED <<state, state_lock, running, main_pc, hk_pc, model, listener,
                   icon, current_state, recording, histVars>>

\* self.transcriber.transcribe(audio_file)
ProcTranscribe ==
    \E i \in DOMAIN threads :
    /\ Alive
    /\ threads[i].pc = "transcribe"
    /\ \E text \in {TranscribeResult(raw) : raw \in Texts} \cup {None} :
          threads' = [Step(i, IF ShouldPaste(text) THEN "paste" ELSE "reset",
                           "transcribe")
                         EXCEPT ![i].text = text]
    /\ ev' = "proc_transcribe"
    /\ SfOnly
    /\ UNCHANGED quit_capturing
    /\ UNCHANGED <<state, state_lock, running, main_pc, hk_pc, model, listener,
                   icon, current_state, recVars, histVars>>

\* self.paster.paste_text(text, restore_clipboard=False); its result is unused
ProcPaste ==
    \E i \in DOMAIN threads :
    /\ Alive
    /\ threads[i].pc = "paste"
    /\ threads' = Step(i, "reset", "paste")
    /\ ev' = "proc_paste"
    /\ SfOnly
    /\ UNCHANGED quit_capturing
    /\ UNCHANGED <<state, state_lock, running, main_pc, hk_pc, model, listener,
                   icon, current_state, recVars, histVars>>

\* except Exception: a stage raised; the handler resets the state
ProcRaise ==
    \E i \in DOMAIN threads :
    /\ Alive
    /\ threads[i].pc \in {"transcribe", "paste"}
    /\ threads' = Step(i, "reset", threads[i].pc)
    /\ ev' = "proc_raise"
    /\ SfOnly
    /\ UNCHANGED quit_capturing
    /\ UNCHANGED <<state, state_lock, running, main_pc, hk_pc, model, listener,
                   icon, current_state, recVars, histVars>>

\* with self.state_lock: self.state = State.IDLE; self.tray.update_state(State.IDLE)
ProcReset ==
    \E i \in DOMAIN threads :
    /\ Alive
    /\ threads[i].pc = "reset"
    /\ state_lock = "free"
    /\ state' = IDLE
    /\ current_state' = UpdateState(IDLE)
    /\ threads' = Step(i, "done", "reset")
    /\ ev' = "proc_reset"
    /\ SfOnly
    /\ UNCHANGED quit_capturing
    /\ UNCHANGED <<state_lock, running, main_pc, hk_pc, model, listener, icon,
                   recVars, histVars>>

SfNext ==
    \/ LoadModel
    \/ StartListener
    \/ TrayStart
    \/ Quit
    \/ Exit
    \/ HotkeyStart
    \/ StartRecording
    \/ HotkeyStop
    \/ HotkeyIgnore
    \/ AudioCallback
    \/ ProcStop
    \/ ProcTranscribe
    \/ ProcPaste
    \/ ProcRaise
    \/ ProcReset

(***************************************************************************)
(* telegram_screenshot.py / dl.py: parse_telegram_topic_url                *)
(*                                                                         *)
(* A URL is a sequence of tokens; PREFIX stands for the literal            *)
(* "https://t.me/c/", "x" for any character the pattern has no place for.  *)
(***************************************************************************)
MaxUrlLen == 6       \* tokens of a link argument

PREFIX == "https://t.me/c/"
UrlChars == {PREFIX, "/", "-", "1", "x", " "}
Urls == SeqsUpTo(UrlChars, MaxUrlLen)

Digits == {"0", "1"}
DigitVal(c) == IF c = "1" THEN 1 ELSE 0

Drop(s, n) == SubSeq(s, n + 1, Len(s))

\* \d+ is greedy: the number of leading digits of s
RECURSIVE DigitRun(_)
DigitRun(s) == IF s # <<>> /\ Head(s) \in Digits THEN 1 + DigitRun(Tail(s)) ELSE 0

NoMatch == <<>>

\* re.match(r"[^]https://t\.me/c/(-?\d+)/(\d+)(?:/(\d+))?[$]", s): groups 1 and 2
ReMatch(s, anchored) ==
    IF s = <<>> \/ Head(s) # PREFIX THEN NoMatch
    ELSE LET r1 == Tail(s)
             sign == IF r1 # <<>> /\ Head(r1) = "-" THEN 1 ELSE 0
             n1 == DigitRun(Drop(r1, sign))
             r3 == Drop(r1, sign + n1)
         IN IF n1 = 0 \/ r3 = <<>> \/ Head(r3) # "/" THEN NoMatch
            ELSE LET r4 == Tail(r3)
                     n2 == DigitRun(r4)
                     r5 == Drop(r4, n2)
                     n3 == IF r5 # <<>> /\ Head(r5) = "/" THEN DigitRun(Tail(r5)) ELSE 0
                     r6 == IF n3 > 0 THEN Drop(r5, n3 + 1) ELSE r5
                 IN IF n2 = 0 \/ (anchored /\ r6 # <<>>) THEN NoMatch
                    ELSE <<SubSeq(r1, 1, sign + n1), SubSeq(r4, 1, n2)>>

RECURSIVE Decimal(_)
Decimal(s) == IF s = <<>> THEN 0 ELSE 10 * Decimal(SubSeq(s, 1, Len(s) - 1)) + DigitVal(s[Len(s)])

AllDigits(s) == s # <<>> /\ \A i \in 1..Len(s) : s[i] \in Digits

\* int(s) for s made of digits and signs: a value, or ValueError
PyInt(s) ==
    IF AllDigits(s) THEN [err |-> FALSE, val |-> Decimal(s)]
    ELSE IF s # <<>> /\ Head(s) = "-" /\ AllDigits(Tail(s))
         THEN [err |-> FALSE, val |-> 0 - Decimal(Tail(s))]
         ELSE [err |-> TRUE, val |-> 0]

ValueError == [raised |-> TRUE, chat_id |-> 0, thread_id |-> 0]

\* the part of parse_telegram_topic_url after the match
ChatAndThread(m) ==
    LET chat == PyInt(<<"-", "1", "0", "0">> \o m[1])
        thread == PyInt(m[2])
    IN IF chat.err \/ thread.err THEN ValueError
       ELSE [raised |-> FALSE, chat_id |-> chat.val, thread_id |-> thread.val]

\* telegram_screenshot.py
parse_telegram_topic_url(tg_url) ==
    LET m == ReMatch(Strip(tg_url), TRUE)
    IN IF m = NoMatch THEN ValueError ELSE ChatAndThread(m)

\* dl.py
dl_parse_telegram_topic_url(url) ==
    LET m == ReMatch(url, FALSE)
    IN IF m = NoMatch THEN ValueError ELSE ChatAndThread(m)

UrlInit ==
    /\ url_pc = "call"
    /\ url_in \in Urls
    /\ url_fn = "none"
    /\ url_out = ValueError

ParseScreenshotUrl ==
    /\ url_pc = "call"
    /\ url_pc' = "done"
    /\ url_fn' = "telegram_screenshot"
    /\ url_out' = parse_telegram_topic_url(url_in)
    /\ UrlOnly
    /\ UNCHANGED url_in

ParseDlUrl ==
    /\ url_pc = "call"
    /\ url_pc' = "done"
    /\ url_fn' = "dl"
    /\ url_out' = dl_parse_telegram_topic_url(url_in)
    /\ UrlOnly
    /\ UNCHANGED url_in

(***************************************************************************)
(* telegram_screenshot.py: main(), one run after another over the same     *)
(* config file and image file.                                             *)
(***************************************************************************)
MaxRuns == 3         \* runs of telegram_screenshot.py

NoArg == <<"no link">>
NoConfig == <<>>
NoImage == 0          \* screenshot.png does not exist
LeftoverImage == -1   \* a screenshot.png from before the first run; run r saves image r

\* links given on the command line
TgLinks ==
    { <<PREFIX, "1", "/", "1">>,
      <<PREFIX, "1", "1", "/", "1", "/", "1">>,
      <<" ", PREFIX, "1", "/", "1", "1">>,
      <<PREFIX, "-", "1", "/", "1">>,
      <<PREFIX, "1", "/", "x">>,
      <<"x">>,
      <<>> }

\* json.dump of an int: an optional minus sign and the decimal digits
JsonInt(n) == IF n < 0 THEN <<"-">> \o DecimalDigits(-n) ELSE DecimalDigits(n)

\* json.load of a number, then int() of it
RECURSIVE JsonNumber(_)
JsonNumber(text) ==
    IF text = <<>> THEN 0
    ELSE IF Head(text) = "-" THEN -JsonNumber(Tail(text))
    ELSE 10 * JsonNumber(SubSeq(text, 1, Len(text) - 1)) + DigitValue(text[Len(text)])

\* save_config: the content written to CONFIG_FILE
save_configUnsigned(chat_id, thread_id) ==
    [chat_id |-> DecimalDigits(IF chat_id < 0 THEN -chat_id ELSE chat_id),
     thread_id |-> JsonInt(thread_id)]

save_config(chat_id, thread_id) ==
    [chat_id |-> JsonInt(chat_id), thread_id |-> JsonInt(thread_id)]

\* load_config on the content of an existing CONFIG_FILE
load_config(data) == <<JsonNumber(data.chat_id), JsonNumber(data.thread_id)>>

\* if args.link:
LinkGiven(link) == link # NoArg /\ link # <<>>

TgInit ==
    /\ tg_pc = "idle"
    /\ tg_link = NoArg
    /\ tg_token = FALSE
    /\ tg_config = NoConfig
    /\ tg_ids = NoConfig
    /\ tg_image \in {NoImage, LeftoverImage}
    /\ tg_shot = FALSE
    /\ tg_bots = 0
    /\ tg_sent = <<>>
    /\ tg_runs = 0
    /\ tg_saved = <<>>

\* the script is started: argv and ~/.env are read
TgRun ==
    /\ tg_pc = "idle"
    /\ tg_runs < MaxRuns
    /\ tg_runs' = tg_runs + 1
    /\ \E link \in TgLinks \cup {NoArg}, token \in BOOLEAN :
          /\ tg_link' = link
          /\ tg_token' = token
          /\ tg_pc' = IF LinkGiven(link) THEN "config" ELSE "normal"
    /\ tg_ids' = NoConfig
    /\ tg_shot' = FALSE
    /\ tg_bots' = 0
    /\ tg_sent' = <<>>
    /\ TgOnly
    /\ UNCHANGED <<tg_config, tg_image, tg_saved>>

\* config mode: parse_telegram_topic_url and save_config
TgConfigure ==
    /\ tg_pc = "config"
    /\ LET r == parse_telegram_topic_url(tg_link) IN
       \E saved \in BOOLEAN :
          IF r.raised \/ ~saved
          THEN /\ tg_pc' = "idle"
               /\ UNCHANGED <<tg_config, tg_ids, tg_saved>>
          ELSE /\ tg_config' = save_config(r.chat_id, r.thread_id)
               /\ tg_saved' = Append(tg_saved, <<r.chat_id, r.thread_id>>)
               /\ tg_ids' = <<r.chat_id, r.thread_id>>
               /\ tg_pc' = "test_message"
    /\ TgOnly
    /\ UNCHANGED <<tg_link, tg_token, tg_image, tg_shot, tg_bots, tg_sent, tg_runs>>

\* config mode: asyncio.run(send_test_message(chat_id, thread_id))
TgSendTestMessage ==
    /\ tg_pc = "test_message"
    /\ IF ~tg_token
       THEN UNCHANGED <<tg_bots, tg_sent>>
       ELSE /\ tg_bots' = tg_bots + 1
            /\ \E delivered \in BOOLEAN :
                  tg_sent' = IF delivered
                             THEN Append(tg_sent, [kind |-> "message", chat_id |-> tg_ids[1],
                                                   thread_id |-> tg_ids[2], image |-> NoImage])
                             ELSE tg_sent
    /\ tg_pc' = "idle"
    /\ TgOnly
    /\ UNCHANGED <<tg_link, tg_token, tg_config, tg_ids, tg_image, tg_shot, tg_runs, tg_saved>>

\* normal mode: load_config
TgLoadConfig ==
    /\ tg_pc = "normal"
    /\ IF tg_config = NoConfig
       THEN tg_pc' = "idle" /\ UNCHANGED tg_ids
       ELSE tg_pc' = "screenshot" /\ tg_ids' = load_config(tg_config)
    /\ TgOnly
    /\ UNCHANGED <<tg_link, tg_token, tg_config, tg_image, tg_shot, tg_bots, tg_sent, tg_runs, tg_saved>>

\* normal mode: take_screenshot
TgTakeScreenshot ==
    /\ tg_pc = "screenshot"
    /\ tg_shot' = TRUE
    /\ \E unlinked \in BOOLEAN, tool \in {"saved", "failed", "no file"} :
          LET before == IF unlinked THEN NoImage ELSE tg_image
              after == IF tool = "saved" THEN tg_runs ELSE before
          IN /\ tg_image' = after
             /\ tg_pc' = IF tool = "failed" \/ after = NoImage THEN "idle" ELSE "send"
    /\ TgOnly
    /\ UNCHANGED <<tg_link, tg_token, tg_config, tg_ids, tg_bots, tg_sent, tg_runs, tg_saved>>

\* normal mode: asyncio.run(send_to_telegram(chat_id, thread_id))
TgSendToTelegram ==
    /\ tg_pc = "send"
    /\ IF ~tg_token
       THEN UNCHANGED <<tg_bots, tg_sent>>
       ELSE /\ tg_bots' = tg_bots + 1
            /\ \E delivered \in BOOLEAN :
                  tg_sent' = IF delivered /\ tg_image # NoImage
                             THEN Append(tg_sent, [kind |-> "photo", chat_id |-> tg_ids[1],
                                                   thread_id |-> tg_ids[2], image |-> tg_image])
                             ELSE tg_sent
    /\ tg_pc' = "idle"
    /\ TgOnly
    /\ UNCHANGED <<tg_link, tg_token, tg_config, tg_ids, tg_image, tg_shot, tg_runs, tg_saved>>

(***************************************************************************)
(* transcribe.py: transcribe_file's choice of the output file, over the    *)
(* files main() selected.  A file name is a sequence of tokens.            *)
(***************************************************************************)
MaxIndex == 2        \* largest -N suffix among the files present at the start
MaxFiles == 2        \* media files selected in one run

Stems == {<<"a">>, <<"a", "-", "1">>}

\* output_dir / f"{stem}.md" (index 0) and output_dir / f"{stem}-{index}.md"
Name(stem, index) ==
    IF index = 0 THEN stem \o <<".md">> ELSE stem \o <<"-", ToString(index), ".md">>

\* output_dir / f"{media_file.stem}.txt"
WhisperOutput(stem) == stem \o <<".txt">>

Exists(name, dir) == name \in DOMAIN dir

\* the while loop of transcribe_file, entered with output_file = Name(stem, index)
RECURSIVE NextFree(_, _, _)
NextFree(stem, dir, index) ==
    IF Exists(Name(stem, index), dir) THEN NextFree(stem, dir, index + 1)
    ELSE Name(stem, index)

OutputFileOnce(stem, dir) ==
    IF Exists(Name(stem, 0), dir) THEN Name(stem, 1) ELSE Name(stem, 0)

\* transcribe_file: output_file
OutputFile(stem, dir) == NextFree(stem, dir, 0)

WriteFile(dir, name, content) == (name :> content) @@ dir

Unlink(dir, name) == [n \in DOMAIN dir \ {name} |-> dir[n]]

MdUniverse == {Name(s, k) : s \in Stems, k \in 0..MaxIndex}

Empty == [n \in {} |-> 0]

TrInit ==
    /\ tr_pc = "next"
    /\ \E present \in SUBSET MdUniverse : tr_dir = [n \in present |-> 0]
    /\ tr_orig = tr_dir
    /\ tr_queue \in SeqsUpTo(Stems, MaxFiles) \ {<<>>}
    /\ tr_stem = <<>>
    /\ tr_target = <<>>
    /\ tr_done = Empty

\* main(): the next selected file; transcribe_file up to the whisper command
TrBegin ==
    /\ tr_pc = "next"
    /\ tr_queue # <<>>
    /\ tr_stem' = Head(tr_queue)
    /\ tr_queue' = Tail(tr_queue)
    /\ tr_target' = OutputFile(Head(tr_queue), tr_dir)
    /\ tr_pc' = "whisper"
    /\ TrOnly
    /\ UNCHANGED <<tr_dir, tr_orig, tr_done>>

\* the whisper subprocess: writes <stem>.txt, or fails, or leaves no file
TrWhisper ==
    /\ tr_pc = "whisper"
    /\ \E outcome \in {"ok", "error", "no output"} :
          IF outcome = "ok"
          THEN /\ tr_dir' = WriteFile(tr_dir, WhisperOutput(tr_stem), Cardinality(DOMAIN tr_done) + 1)
               /\ tr_pc' = "write"
          ELSE /\ tr_pc' = "next"
               /\ UNCHANGED tr_dir
    /\ TrOnly
    /\ UNCHANGED <<tr_orig, tr_queue, tr_stem, tr_target, tr_done>>

\* output_file.write_text(...) and whisper_output.unlink(); an OSError of
\* write_text leaves both files as they are
TrWrite ==
    /\ tr_pc = "write"
    /\ \E written \in BOOLEAN :
          LET content == tr_dir[WhisperOutput(tr_stem)]
              dir == WriteFile(tr_dir, tr_target, content)
          IN IF written
             THEN /\ tr_dir' = IF WhisperOutput(tr_stem) # tr_target
                               THEN Unlink(dir, WhisperOutput(tr_stem)) ELSE dir
                  /\ tr_done' = WriteFile(tr_done, tr_target, content)
             ELSE UNCHANGED <<tr_dir, tr_done>>
    /\ tr_pc' = "next"
    /\ TrOnly
    /\ UNCHANGED <<tr_orig, tr_queue, tr_stem, tr_target>>

(***************************************************************************)
(* downloader.py: the names main() gives to the downloads of one .txt      *)
(* file.  A line, a URL and a file name are sequences of tokens.           *)
(***************************************************************************)
MaxLines == 3        \* lines of the .txt file
MaxDup == 1          \* largest _N suffix among the files present at the start

DlLines ==
    { <<" ", "http://", "host", "x", " ">>,     \* a URL with blanks around it
      <<"https://", "youtube.com", "id">>,      \* a YouTube URL
      <<"#", "https://", "host", "x">>,         \* a comment
      <<" ">> }                                 \* a blank line

StartsWith(s, t) == s # <<>> /\ Head(s) = t

KeepLine(line) ==
    /\ ~(line = <<>> \/ StartsWith(line, "#"))
    /\ (StartsWith(line, "http://") \/ StartsWith(line, "https://"))

\* extract_urls_from_file: the stripped lines that pass both tests, in order
extract_urls_from_file(lines) ==
    SelectSeq([i \in DOMAIN lines |-> Strip(lines[i])], KeepLine)

is_youtube_url(url) ==
    \E i \in DOMAIN url : url[i] \in {"youtube.com", "youtu.be", "youtube-nocookie.com"}

RECURSIVE ZeroPad(_, _)
ZeroPad(digits, width) ==
    IF Len(digits) < width THEN ZeroPad(<<"0">> \o digits, width) ELSE digits

\* f"{index:03d}"
Format03d(index) == ZeroPad(DecimalDigits(index), 3)

\* sanitize_filename on a one-token name: "x" is alphanumeric, the rest is removed
sanitize_filename(name) == IF name \in {"x", "t", "id"} THEN <<name>> ELSE <<>>

\* get_filename_from_url; title is get_youtube_title(url), "" when yt-dlp gave none
get_filename_from_url(url, index, title) ==
    LET prefix == Format03d(index)
        last == url[Len(url)]
    IN  IF is_youtube_url(url)
        THEN IF sanitize_filename(title) # <<>>
             THEN prefix \o <<"_">> \o sanitize_filename(title) \o <<"_", last, ".mp4">>
             ELSE prefix \o <<"_", "youtube_video", "_", last, ".mp4">>
        ELSE IF sanitize_filename(last) # <<>>
             THEN prefix \o <<"_">> \o sanitize_filename(last) \o <<".mp4">>
             ELSE prefix \o <<"_", "video", ".mp4">>

\* parent / f"{stem}_{counter}{suffix}": the suffix is the last token of the name
Numbered(base_path, counter) ==
    SubSeq(base_path, 1, Len(base_path) - 1)
        \o <<"_", ToString(counter), base_path[Len(base_path)]>>

\* the while loop of get_unique_filepath
RECURSIVE UniqueFrom(_, _, _)
UniqueFrom(base_path, dir, counter) ==
    IF ~Exists(Numbered(base_path, counter), dir) THEN Numbered(base_path, counter)
    ELSE UniqueFrom(base_path, dir, counter + 1)

get_unique_filepathFirstSuffix(base_path, dir) ==
    IF ~Exists(base_path, dir) THEN base_path ELSE Numbered(base_path, 1)

get_unique_filepath(base_path, dir) ==
    IF ~Exists(base_path, dir) THEN base_path ELSE UniqueFrom(base_path, dir, 1)

\* the names a first download can collide with
DlBases ==
    { get_filename_from_url(<<"http://", "host", "x">>, 1, ""),
      get_filename_from_url(<<"https://", "youtube.com", "id">>, 1, "") }

DlUniverse == DlBases \cup {Numbered(b, k) : b \in DlBases, k \in 1..MaxDup}

DlInit ==
    /\ dl_pc = "extract"
    /\ dl_lines \in SeqsUpTo(DlLines, MaxLines)
    /\ dl_urls = <<>>
    /\ dl_index = 0
    /\ \E present \in SUBSET DlUniverse : dl_dir = [n \in present |-> 0]
    /\ dl_orig = dl_dir
    /\ dl_path = <<>>

DlOnly == UNCHANGED <<sfVars, tgVars, urlVars, trVars, ytVars, cvVars>>

\* main(): urls = extract_urls_from_file(txt_file); a file that cannot be read, or
\* that holds no URL, is skipped
DlExtract ==
    /\ dl_pc = "extract"
    /\ \E readable \in BOOLEAN :
         LET urls == IF readable THEN extract_urls_from_file(dl_lines) ELSE <<>>
         IN  /\ dl_urls' = urls
             /\ dl_pc' = IF urls = <<>> THEN "done" ELSE "name"
    /\ DlOnly
    /\ UNCHANGED <<dl_lines, dl_index, dl_dir, dl_orig, dl_path>>

\* the head of the loop body: the file name and the existence check
DlName ==
    /\ dl_pc = "name"
    /\ dl_index < Len(dl_urls)
    /\ dl_index' = dl_index + 1
    /\ \E title \in {"", "t"} :
         LET output_path == get_filename_from_url(dl_urls[dl_index + 1], dl_index + 1, title)
         IN  dl_path' = IF Exists(output_path, dl_dir)
                        THEN get_unique_filepath(output_path, dl_dir)
                        ELSE output_path
    /\ dl_pc' = "download"
    /\ DlOnly
    /\ UNCHANGED <<dl_lines, dl_urls, dl_dir, dl_orig>>

\* download_media(url, output_path): yt-dlp writes output_path when it succeeds
DlDownload ==
    /\ dl_pc = "download"
    /\ \E ok \in BOOLEAN :
         dl_dir' = IF ok THEN WriteFile(dl_dir, dl_path, dl_index) ELSE dl_dir
    /\ dl_pc' = "name"
    /\ DlOnly
    /\ UNCHANGED <<dl_lines, dl_urls, dl_index, dl_orig, dl_path>>

\* the loop is exhausted
DlSummary ==
    /\ dl_pc = "name"
    /\ dl_index = Len(dl_urls)
    /\ dl_pc' = "done"
    /\ DlOnly
    /\ UNCHANGED <<dl_lines, dl_urls, dl_index, dl_dir, dl_orig, dl_path>>

(***************************************************************************)
(* downloader.py: download_media for one URL, with the functions it        *)
(* retries with.  Each action is one yt-dlp run and the code up to the    *)
(* next run.                                                               *)
(***************************************************************************)
\* download_youtube_fallback: strategies, by strategy_name
Strategies ==
    << "android+web + cookies", "android + cookies", "android (no cookies)",
       "web + cookies", "mweb + cookies", "mediaconnect", "android (any quality)" >>

\* what a yt-dlp run can come to: exit 0 with a non-empty output file, exit 0
\* without one, a non-zero exit code, or subprocess.run raising
RunOutcomes == {"ok", "empty", "failed", "raised"}

Run(cmd, out) == [cmd |-> cmd, out |-> out]

\* download_media's dispatch after a non-zero exit code
RetryPath(youtube, format_error, signin_required, is_403_error, js_runtime_error, cookies) ==
    IF youtube /\ format_error THEN "fallback"
    ELSE IF youtube /\ signin_required
         THEN IF ~cookies THEN "export" ELSE "return"
    ELSE IF youtube /\ (is_403_error \/ js_runtime_error) THEN "fallback"
    ELSE IF is_403_error /\ ~youtube
         THEN IF ~cookies THEN "export" ELSE "media_with_cookies"
    ELSE "return"

\* download_youtube_fallback after the run of strategy i: return True, go on to
\* the next strategy, or return False when the list is exhausted
AfterStrategyGiveUp(i, out) ==
    IF out = "ok" THEN [pc |-> "done", result |-> "True", strategy |-> i]
    ELSE [pc |-> "done", result |-> "False", strategy |-> i]

AfterStrategy(i, out) ==
    IF out = "ok" THEN [pc |-> "done", result |-> "True", strategy |-> i]
    ELSE IF i < Len(Strategies) THEN [pc |-> "fallback", result |-> "none", strategy |-> i + 1]
    ELSE [pc |-> "done", result |-> "False", strategy |-> i]

YtInit ==
    /\ yt_pc = "primary"
    /\ yt_youtube \in BOOLEAN
    /\ yt_cookies \in BOOLEAN
    /\ yt_strategy = 0
    /\ yt_then = "none"
    /\ yt_result = "none"
    /\ yt_log = <<>>
    /\ yt_paths = 0

YtOnly == UNCHANGED <<sfVars, tgVars, urlVars, trVars, dlVars, cvVars>>

\* download_media: the first run and the dispatch on its output
YtPrimary ==
    /\ yt_pc = "primary"
    /\ \E out \in RunOutcomes :
         /\ yt_log' = Append(yt_log, Run("download_media", out))
         /\ IF out = "ok"
            THEN /\ yt_pc' = "done" /\ yt_result' = "True"
                 /\ UNCHANGED <<yt_strategy, yt_then, yt_paths>>
            ELSE IF out \in {"empty", "raised"}
            THEN /\ yt_pc' = "done" /\ yt_result' = "False"
                 /\ UNCHANGED <<yt_strategy, yt_then, yt_paths>>
            ELSE \E format_error, signin_required, is_403_error, js_runtime_error \in BOOLEAN :
                   LET path == RetryPath(yt_youtube, format_error, signin_required,
                                         is_403_error, js_runtime_error, yt_cookies)
                   IN  /\ yt_pc' = IF path = "return" THEN "done" ELSE path
                       /\ yt_result' = IF path = "return" THEN "False" ELSE "none"
                       /\ yt_strategy' = IF path = "fallback" THEN 1 ELSE yt_strategy
                       /\ yt_then' = IF path = "export"
                                     THEN IF yt_youtube THEN "youtube_with_cookies"
                                          ELSE "media_with_cookies"
                                     ELSE yt_then
                       /\ yt_paths' = IF path = "return" THEN yt_paths ELSE yt_paths + 1
    /\ YtOnly
    /\ UNCHANGED <<yt_youtube, yt_cookies>>

\* download_youtube_fallback: one turn of the loop over strategies
YtFallback ==
    /\ yt_pc = "fallback"
    /\ \E out \in RunOutcomes :
         LET after == AfterStrategy(yt_strategy, out)
         IN  /\ yt_log' = Append(yt_log, Run(Strategies[yt_strategy], out))
             /\ yt_pc' = after.pc
             /\ yt_result' = after.result
             /\ yt_strategy' = after.strategy
    /\ YtOnly
    /\ UNCHANGED <<yt_youtube, yt_cookies, yt_then, yt_paths>>

\* export_cookies_from_browser, a yt-dlp run with a timeout: download_media gives
\* up if it fails, download_media_with_cookies goes on either way
YtExport ==
    /\ yt_pc = "export"
    /\ \E out \in RunOutcomes :
         /\ yt_log' = Append(yt_log, Run("export_cookies_from_browser", out))
         /\ yt_cookies' = (out = "ok")
         /\ IF yt_then = "youtube_with_cookies" /\ out # "ok"
            THEN yt_pc' = "done" /\ yt_result' = "False"
            ELSE yt_pc' = yt_then /\ yt_result' = "none"
    /\ YtOnly
    /\ UNCHANGED <<yt_youtube, yt_strategy, yt_then, yt_paths>>

\* download_youtube_with_cookies / download_media_with_cookies: one run
YtWithCookies ==
    /\ yt_pc \in {"youtube_with_cookies", "media_with_cookies"}
    /\ \E out \in RunOutcomes :
         /\ yt_log' = Append(yt_log, Run(yt_pc, out))
         /\ yt_result' = IF out = "ok" THEN "True" ELSE "False"
    /\ yt_pc' = "done"
    /\ YtOnly
    /\ UNCHANGED <<yt_youtube, yt_cookies, yt_strategy, yt_then, yt_paths>>

(***************************************************************************)
(* The converters: the for loop of main() in convert.py (per-file modes),  *)
(* convert_all_webinar.py, convert_to_mp3.py and                           *)
(* conver_to_telegram_small.py.  An action is one turn of the loop.        *)
(***************************************************************************)
MaxSources == 2      \* inputs of one run
MaxConvRuns == 2     \* runs of a directory script over the same directory

NoExit == -1         \* the process is running

VIDEO_EXTS == {".mov"}
AUDIO_EXTS == {".mp3"}

Source(stem, ext, kind) == [stem |-> stem, ext |-> ext, kind |-> kind]

\* sorted(root.iterdir()) over the media files a folder can hold
FolderOrder ==
    << Source("a", ".mov", "file"), Source("a", ".mp3", "file"),
       Source("b", ".mov", "file"), Source("b", ".mp3", "file") >>

\* command-line arguments: files, a path that is no file, and a path whose
\* ~user prefix names no user, for which Path.expanduser() raises RuntimeError
Arguments ==
    { Source("a", ".mov", "file"), Source("b", ".mp3", "file"),
      Source("c", ".mov", "not a file"), Source("~nobody/d", ".mov", "no home") }

FolderScripts ==
    {"convert_all_webinar", "TELEGRAM", "AUDIO_ONLY", "VIDEO_SLIDES_1FPS", "VIDEO_SLIDES_1FPS_HALF"}

ArgumentScripts == {"convert_to_mp3", "conver_to_telegram_small"}

\* make_paths
VideoOut(src) == <<src.stem, "-result.mp4">>
AudioOut(src) == <<src.stem, "-audio.m4a">>

\* make_output_path of convert_to_mp3.py and of conver_to_telegram_small.py
Mp3Out(src) == <<src.stem, "-result.mp3">>
SmallOut(src) == <<src.stem, "-result-small.mp4">>

\* what an ffmpeg run can come to: exit 0 with a non-empty output, exit 0 without
\* one, a non-zero exit code
FfOutcomes == {"ok", "empty", "failed"}

Call(what, dst, out) == [what |-> what, dst |-> dst, out |-> out]

\* the ffmpeg invocations of one turn of the TELEGRAM / convert_all_webinar body:
\* the video if it is to do and the source is a video, then the audio unless the
\* video raised
VideoAndAudioCalls(src, dir, v, a) ==
    LET todo_video == VideoOut(src) \notin dir
        todo_audio == AudioOut(src) \notin dir
        video == IF todo_video /\ src.ext \in VIDEO_EXTS
                 THEN <<Call("video", VideoOut(src), v)>> ELSE <<>>
        audio == IF video # <<>> /\ v # "ok"
                 THEN <<>> ELSE <<Call("audio", AudioOut(src), a)>>
    IN  IF ~todo_video /\ ~todo_audio THEN <<>> ELSE video \o audio

\* AUDIO_ONLY
AudioOnlyCalls(src, dir, a) ==
    IF AudioOut(src) \in dir THEN <<>> ELSE <<Call("audio", AudioOut(src), a)>>

\* VIDEO_SLIDES_1FPS and VIDEO_SLIDES_1FPS_HALF
SlidesCalls(src, dir, v) ==
    IF src.ext \notin VIDEO_EXTS \/ VideoOut(src) \in dir THEN <<>>
    ELSE <<Call("video", VideoOut(src), v)>>

\* the scripts that test the output after ffmpeg raise on "empty" as on "failed";
\* convert_to_mp3.py has no such test
Raises(calls, checked) ==
    \E i \in DOMAIN calls :
        calls[i].out = "failed" \/ (checked /\ calls[i].out = "empty")

Written(calls) == {calls[i].dst : i \in {j \in DOMAIN calls : calls[j].out = "ok"}}

CvInit ==
    /\ cv_pc = "loop"
    /\ cv_script \in FolderScripts \cup ArgumentScripts
    /\ IF cv_script \in FolderScripts
       THEN /\ \E present \in SUBSET Range(FolderOrder) :
                 /\ present # {}
                 /\ Cardinality(present) <= MaxSources
                 /\ cv_inputs = SelectSeq(FolderOrder, LAMBDA f : f \in present)
            /\ cv_dir \in SUBSET UNION {{VideoOut(f), AudioOut(f)} : f \in Range(cv_inputs)}
       ELSE /\ cv_inputs \in SeqsUpTo(Arguments, MaxSources)
            /\ cv_inputs # <<>>
            /\ cv_dir = {}
    /\ cv_queue = cv_inputs
    /\ cv_orig = cv_dir
    /\ cv_log = <<>>
    /\ cv_exit = 0
    /\ cv_runs = 1
    /\ cv_prev = NoExit

CvOnly == UNCHANGED <<sfVars, tgVars, urlVars, trVars, dlVars, ytVars>>

\* the rest of a turn once its ffmpeg invocations are known
Turn(calls, checked) ==
    /\ cv_log' = Append(cv_log, [src |-> Head(cv_queue), calls |-> calls])
    /\ cv_dir' = cv_dir \cup Written(calls)
    /\ cv_exit' = IF Raises(calls, checked) THEN 1 ELSE cv_exit
    /\ cv_queue' = Tail(cv_queue)
    /\ UNCHANGED <<cv_pc, cv_script, cv_inputs, cv_orig, cv_runs, cv_prev>>

\* convert_all_webinar.py, and convert.py in TELEGRAM mode
CvVideoAndAudio ==
    /\ cv_pc = "loop" /\ cv_queue # <<>>
    /\ cv_script \in {"convert_all_webinar", "TELEGRAM"}
    /\ \E v, a \in FfOutcomes :
         Turn(VideoAndAudioCalls(Head(cv_queue), cv_dir, v, a), TRUE)
    /\ CvOnly

\* convert.py in AUDIO_ONLY mode
CvAudioOnly ==
    /\ cv_pc = "loop" /\ cv_queue # <<>>
    /\ cv_script = "AUDIO_ONLY"
    /\ \E a \in FfOutcomes : Turn(AudioOnlyCalls(Head(cv_queue), cv_dir, a), TRUE)
    /\ CvOnly

\* convert.py in the two slides modes
CvSlides ==
    /\ cv_pc = "loop" /\ cv_queue # <<>>
    /\ cv_script \in {"VIDEO_SLIDES_1FPS", "VIDEO_SLIDES_1FPS_HALF"}
    /\ \E v \in FfOutcomes : Turn(SlidesCalls(Head(cv_queue), cv_dir, v), TRUE)
    /\ CvOnly

\* convert_to_mp3.py and conver_to_telegram_small.py: Path(arg).expanduser()
\* .resolve() stands before the try, so an exception of it ends the process with
\* a traceback and exit code 1
CvArgument ==
    /\ cv_pc = "loop" /\ cv_queue # <<>>
    /\ cv_script \in ArgumentScripts
    /\ LET src == Head(cv_queue)
           dst == IF cv_script = "convert_to_mp3" THEN Mp3Out(src) ELSE SmallOut(src)
           checked == cv_script = "conver_to_telegram_small"
       IN  IF src.kind = "no home"
           THEN /\ cv_pc' = "exited"
                /\ cv_exit' = 1
                /\ UNCHANGED <<cv_script, cv_inputs, cv_queue, cv_dir, cv_orig, cv_log,
                               cv_runs, cv_prev>>
           ELSE IF src.kind = "not a file"
           THEN /\ cv_log' = Append(cv_log, [src |-> src, calls |-> <<>>])
                /\ cv_exit' = 1
                /\ cv_queue' = Tail(cv_queue)
                /\ UNCHANGED <<cv_pc, cv_script, cv_inputs, cv_dir, cv_orig, cv_runs, cv_prev>>
           ELSE \E out \in FfOutcomes : Turn(<<Call("convert", dst, out)>>, checked)
    /\ CvOnly

\* sys.exit(exit_code)
CvExit ==
    /\ cv_pc = "loop" /\ cv_queue = <<>>
    /\ cv_pc' = "exited"
    /\ CvOnly
    /\ UNCHANGED <<cv_script, cv_inputs, cv_queue, cv_dir, cv_orig, cv_log, cv_exit,
                   cv_runs, cv_prev>>

\* the script is started again in the same folder, nothing else having changed
CvRunAgain ==
    /\ cv_pc = "exited"
    /\ cv_script \in FolderScripts
    /\ cv_runs < MaxConvRuns
    /\ cv_pc' = "loop"
    /\ cv_queue' = cv_inputs
    /\ cv_orig' = cv_dir
    /\ cv_log' = <<>>
    /\ cv_prev' = cv_exit
    /\ cv_exit' = 0
    /\ cv_runs' = cv_runs + 1
    /\ CvOnly
    /\ UNCHANGED <<cv_script, cv_inputs, cv_dir>>

(***************************************************************************)
(* Specifications                                                          *)
(***************************************************************************)
SfOff == SfInit

TgOff ==
    /\ tg_pc = "off" /\ tg_link = NoArg /\ tg_token = FALSE /\ tg_config = NoConfig
    /\ tg_ids = NoConfig /\ tg_image = NoImage /\ tg_shot = FALSE /\ tg_bots = 0
    /\ tg_sent = <<>> /\ tg_runs = 0 /\ tg_saved = <<>>

UrlOff == url_pc = "off" /\ url_in = <<>> /\ url_fn = "none" /\ url_out = ValueError

TrOff ==
    /\ tr_pc = "off" /\ tr_dir = Empty /\ tr_orig = Empty /\ tr_queue = <<>>
    /\ tr_stem = <<>> /\ tr_target = <<>> /\ tr_done = Empty

DlOff ==
    /\ dl_pc = "off" /\ dl_lines = <<>> /\ dl_urls = <<>> /\ dl_index = 0
    /\ dl_dir = Empty /\ dl_orig = Empty /\ dl_path = <<>>

YtOff ==
    /\ yt_pc = "off" /\ yt_youtube = FALSE /\ yt_cookies = FALSE /\ yt_strategy = 0
    /\ yt_then = "none" /\ yt_result = "none" /\ yt_log = <<>> /\ yt_paths = 0

CvOff ==
    /\ cv_pc = "off" /\ cv_script = "none" /\ cv_inputs = <<>> /\ cv_queue = <<>>
    /\ cv_dir = {} /\ cv_orig = {} /\ cv_log = <<>> /\ cv_exit = NoExit
    /\ cv_runs = 0 /\ cv_prev = NoExit

ExtraOff == DlOff /\ YtOff /\ CvOff

Init == SfInit /\ TgOff /\ UrlOff /\ TrOff /\ ExtraOff

Next == SfNext

\* the SpeakFlow application
Spec == Init /\ [][Next]_vars

\* the same, with every started thread scheduled: a _process_audio thread takes
\* its next step, and the listener thread finishes the handler it is in
FairSpec ==
    /\ Init
    /\ [][Next]_vars
    /\ WF_vars(StartRecording)
    /\ WF_vars(ProcStop)
    /\ WF_vars(ProcTranscribe)
    /\ WF_vars(ProcPaste)
    /\ WF_vars(ProcReset)

(***************************************************************************)
(* Claims about SpeakFlow                                                  *)
(***************************************************************************)
ActiveThreads == {i \in DOMAIN threads : Active(i)}


\* C1: SpeakFlow.state is always one of idle, recording, processing, and it is
\* idle from construction until the first hotkey press is handled.
C1_StateIsOneOfThree ==
    /\ state \in State
    /\ presses = 0 => state = IDLE

C1_Witness == state = PROCESSING /\ presses = 2

\* C2: the only changes of SpeakFlow.state are idle->recording and
\* recording->processing (each by a hotkey press), processing->idle (by the
\* background thread's reset) and recording->idle (start_recording() failed).
C2_ThreeStateLatch ==
    [][state' # state =>
          \/ state = IDLE /\ state' = RECORDING /\ ev' = "hotkey_start"
          \/ state = RECORDING /\ state' = PROCESSING /\ ev' = "hotkey_stop"
          \/ state = PROCESSING /\ state' = IDLE /\ ev' = "proc_reset"
          \/ state = RECORDING /\ state' = IDLE /\ ev' = "start_failed"]_vars

C2_Witness == ev = "start_failed" /\ state = IDLE /\ Len(threads) = 1

\* C3: a hotkey press handled while the state is processing changes neither the
\* state, the lock, the recorder nor the threads, and it is not queued: every call
\* of start_recording() belongs to a press that found the state idle.
C3_ProcessingPressIgnored ==
    /\ [][(presses' = presses + 1 /\ state = PROCESSING) =>
             /\ UNCHANGED <<state, state_lock, hk_pc, threads, recVars>>
             /\ UNCHANGED <<idle_presses, start_calls>>]_vars
    /\ [](start_calls = idle_presses - (IF hk_pc = "start_rec" THEN 1 ELSE 0))

C3_Witness ==
    /\ ev = "start_ok"
    /\ Len(threads) = 1
    /\ presses = 4
    /\ idle_presses = 2

\* C4: a thread is started exactly when the state goes recording->processing, one
\* per transition, and at most one thread that has not reset the state exists.
C4_OneProcessingThread ==
    /\ [][/\ Len(threads') \in {Len(threads), Len(threads) + 1}
          /\ (state = RECORDING /\ state' = PROCESSING)
                <=> (Len(threads') = Len(threads) + 1)]_vars
    /\ [](Cardinality(ActiveThreads) <= 1)

C4_Witness == Len(threads) = 2 /\ ActiveThreads = {2} /\ threads[2].pc = "paste"

\* C5: under FairSpec, whenever the state is processing it is idle again later
\* (or the process has exited), whatever the background thread's stages return.
C5_ProcessingReturnsToIdle ==
    (state = PROCESSING) ~> (state = IDLE \/ main_pc = "exited")

C5_Witness ==
    /\ state = IDLE
    /\ ev = "proc_reset"
    /\ \E i \in DOMAIN threads :
          threads[i].pc = "done" /\ threads[i].log = <<"stop", "transcribe", "reset">>

\* C6: in each cycle the stages are invoked in the order stop, transcribe, paste,
\* reset, each at most once, starting with stop, and paste_text is invoked only
\* with a text that is not None and not blank.
StageRank(stage) ==
    CASE stage = "stop" -> 1
      [] stage = "transcribe" -> 2
      [] stage = "paste" -> 3
      [] stage = "reset" -> 4

C6_StagesInOrderOnce ==
    \A i \in DOMAIN threads :
        LET log == threads[i].log IN
        /\ \A j, k \in DOMAIN log : j < k => StageRank(log[j]) < StageRank(log[k])
        /\ log # <<>> => log[1] = "stop"
        /\ "paste" \in Range(log) =>
              /\ "transcribe" \in Range(log)
              /\ threads[i].text # None
              /\ Strip(threads[i].text) # <<>>
        /\ "transcribe" \in Range(log) => threads[i].audio_file = TEMP_AUDIO_FILE

C6_Witness ==
    \E i \in DOMAIN threads :
        threads[i].log = <<"stop", "transcribe", "paste", "reset">> /\ state = IDLE

\* C7: TrayIcon.current_state equals SpeakFlow.state after every change of the
\* state, also for presses handled before the tray icon exists.
C7_TrayReflectsState == current_state = state

(***************************************************************************)
(* telegram_screenshot.py                                                  *)
(***************************************************************************)
TgNext ==
    \/ TgRun
    \/ TgConfigure
    \/ TgSendTestMessage
    \/ TgLoadConfig
    \/ TgTakeScreenshot
    \/ TgSendToTelegram

\* runs of telegram_screenshot.py
InitTg == SfOff /\ TgInit /\ UrlOff /\ TrOff /\ ExtraOff

SpecTg == InitTg /\ [][TgNext]_vars

UrlNext == ParseScreenshotUrl \/ ParseDlUrl

\* parse_telegram_topic_url applied to every link of at most MaxUrlLen tokens
InitUrl == SfOff /\ TgOff /\ UrlInit /\ TrOff /\ ExtraOff

SpecUrl == InitUrl /\ [][UrlNext]_vars

\* C8: a run with a link argument (config mode) takes no screenshot, creates no
\* telegram Bot and sends no message.
C8_ConfigModeTouchesNoTelegram ==
    LinkGiven(tg_link) => ~tg_shot /\ tg_bots = 0 /\ tg_sent = <<>>

\* the pattern the function applies, to the string it applies it to
UrlMatch ==
    IF url_fn = "dl" THEN ReMatch(url_in, FALSE) ELSE ReMatch(Strip(url_in), TRUE)

RECURSIVE Pow10(_)
Pow10(n) == IF n = 0 THEN 1 ELSE 10 * Pow10(n - 1)

\* C9: parse_telegram_topic_url returns (chat id with the -100 prefix, thread id)
\* for every string its regular expression matches, and raises ValueError for
\* every other string.
C9_AcceptsWhatThePatternMatches ==
    url_pc = "done" =>
        IF UrlMatch = NoMatch THEN url_out.raised
        ELSE /\ ~url_out.raised
             /\ url_out.thread_id = Decimal(UrlMatch[2])
             /\ AllDigits(UrlMatch[1]) =>
                   url_out.chat_id =
                       0 - (100 * Pow10(Len(UrlMatch[1])) + Decimal(UrlMatch[1]))

(***************************************************************************)
(* transcribe.py                                                           *)
(***************************************************************************)
TrNext == TrBegin \/ TrWhisper \/ TrWrite

\* one run of transcribe.py over an output directory holding any .md files
InitTr == SfOff /\ TgOff /\ UrlOff /\ TrInit /\ ExtraOff

SpecTr == InitTr /\ [][TrNext]_vars

\* name is <stem>.md if that is free in dir, else the first free <stem>-N.md
FirstFree(stem, name, dir) ==
    IF ~Exists(Name(stem, 0), dir) THEN name = Name(stem, 0)
    ELSE \E N \in 1..(Cardinality(DOMAIN dir) + 1) :
            /\ name = Name(stem, N)
            /\ ~Exists(name, dir)
            /\ \A k \in 1..(N - 1) : Exists(Name(stem, k), dir)

\* the .md files of a directory
Transcripts(dir) == {n \in DOMAIN dir : n[Len(n)] = ".md"}

\* C10: transcribe_file writes to <stem>.md if it does not exist and otherwise to
\* the first <stem>-N.md that does not exist; every .md file present before the
\* run, and every transcript written earlier in it, keeps its content.
C10_NeverOverwritesTranscript ==
    /\ \A n \in DOMAIN tr_orig : Exists(n, tr_dir) /\ tr_dir[n] = tr_orig[n]
    /\ \A n \in DOMAIN tr_done : Exists(n, tr_dir) /\ tr_dir[n] = tr_done[n]
    /\ Transcripts(tr_dir) = DOMAIN tr_orig \cup DOMAIN tr_done
    /\ tr_pc \in {"whisper", "write"} =>
          FirstFree(tr_stem, tr_target, [n \in Transcripts(tr_dir) |-> tr_dir[n]])

C10_Witness ==
    /\ tr_pc = "next"
    /\ tr_queue = <<>>
    /\ Cardinality(DOMAIN tr_done) = 2
    /\ Exists(Name(<<"a">>, 2), tr_done)
    /\ Exists(Name(<<"a", "-", "1">>, 1), tr_done)
    /\ Exists(Name(<<"a">>, 1), tr_orig)

(***************************************************************************)
(* downloader.py                                                           *)
(***************************************************************************)
DlNext == DlExtract \/ DlName \/ DlDownload \/ DlSummary

\* one run of downloader.py over a .txt file of any lines and an output
\* directory holding any earlier downloads
InitDl == SfOff /\ TgOff /\ UrlOff /\ TrOff /\ DlInit /\ YtOff /\ CvOff

SpecDl == InitDl /\ [][DlNext]_vars

PrefixRange == 1001  \* positions for which the prefix format is evaluated

\* a line that holds a URL: blanks aside, it begins with a scheme
ValidLine(line) ==
    LET l == Strip(line) IN l # <<>> /\ l[1] \in {"http://", "https://"}

\* the number of valid lines among the first i lines
ValidUpTo(lines, i) == Cardinality({j \in 1..i : ValidLine(lines[j])})

\* the number a file name begins with, read up to the first "_"; -1 if there is none
PrefixOf(name) ==
    IF \E i \in DOMAIN name : name[i] = "_"
    THEN LET u == CHOOSE i \in DOMAIN name :
                     name[i] = "_" /\ \A j \in 1..(i - 1) : name[j] # "_"
         IN  IF u > 1 /\ \A j \in 1..(u - 1) : IsDigit(name[j])
             THEN [width |-> u - 1,
                   value |-> LET RECURSIVE Val(_)
                                 Val(k) == IF k = 0 THEN 0
                                           ELSE 10 * Val(k - 1) + DigitValue(name[k])
                             IN  Val(u - 1)]
             ELSE [width |-> 0, value |-> -1]
    ELSE [width |-> 0, value |-> -1]

\* f"{index:03d}" writes the index in decimal, padded with zeros to three digits
PrefixFormat ==
    \A n \in 1..PrefixRange :
        LET p == PrefixOf(Format03d(n) \o <<"_">>)
        IN  p.value = n /\ p.width = IF n < 1000 THEN 3 ELSE 4

\* path is base if base is free in dir, else the first free <stem>_<k><suffix>
SmallestFree(base, path, dir) ==
    IF ~Exists(base, dir) THEN path = base
    ELSE \E k \in 1..(Cardinality(DOMAIN dir) + 1) :
            /\ path = Numbered(base, k)
            /\ ~Exists(path, dir)
            /\ \A j \in 1..(k - 1) : Exists(Numbered(base, j), dir)

YtNext == YtPrimary \/ YtFallback \/ YtExport \/ YtWithCookies

\* one call of download_media, for a YouTube or another URL, with or without
\* ./cookies.txt
InitYt == SfOff /\ TgOff /\ UrlOff /\ TrOff /\ DlOff /\ YtInit /\ CvOff

SpecYt == InitYt /\ [][YtNext]_vars

\* every yt-dlp process that was started comes to an end
FairSpecYt ==
    /\ SpecYt
    /\ WF_vars(YtPrimary)
    /\ WF_vars(YtFallback)
    /\ WF_vars(YtExport)
    /\ WF_vars(YtWithCookies)

IsStrategyRun(r) == \E i \in DOMAIN Strategies : r.cmd = Strategies[i]

IsCookieRun(r) ==
    r.cmd \in {"export_cookies_from_browser", "youtube_with_cookies", "media_with_cookies"}

\* the runs download_youtube_fallback made
FallbackRuns == SelectSeq(yt_log, IsStrategyRun)

CookieRuns == SelectSeq(yt_log, IsCookieRun)

FallbackInOrder ==
    LET F == FallbackRuns
    IN  /\ Len(F) <= 7
        /\ \A i \in DOMAIN F : F[i].cmd = Strategies[i]
        /\ \A i \in 1..(Len(F) - 1) : F[i].out # "ok"
        /\ F # <<>> =>
             /\ F[Len(F)].out = "ok" => yt_pc = "done" /\ yt_result = "True"
             /\ F[Len(F)].out # "ok" /\ Len(F) < 7 => yt_pc = "fallback" /\ yt_result = "none"
             /\ F[Len(F)].out # "ok" /\ Len(F) = 7 => yt_pc = "done" /\ yt_result = "False"
             /\ yt_result = "True" => F[Len(F)].out = "ok"
             /\ yt_result = "False" => Len(F) = 7 /\ \A i \in DOMAIN F : F[i].out # "ok"

AtMostOneRetryPath ==
    /\ yt_paths <= 1
    /\ FallbackRuns = <<>> \/ CookieRuns = <<>>
    /\ Len(CookieRuns) <= 2
    /\ Len(yt_log) <= 1 + 7

\* C14: download_youtube_fallback runs its seven strategies in the listed order,
\* returns True at the first that exits 0 with a non-empty output file and False
\* after all seven failed; download_media enters at most one retry path, makes at
\* most eight yt-dlp runs and returns.
C14_FallbackInOrderAndBounded ==
    /\ [](FallbackInOrder /\ AtMostOneRetryPath)
    /\ <>(yt_pc = "done" /\ yt_result \in {"True", "False"})

C14_Witness ==
    /\ yt_pc = "done"
    /\ yt_result = "False"
    /\ Len(FallbackRuns) = 7
    /\ Len(yt_log) = 8

(***************************************************************************)
(* The converters                                                          *)
(***************************************************************************)
CvNext == CvVideoAndAudio \/ CvAudioOnly \/ CvSlides \/ CvArgument \/ CvExit \/ CvRunAgain

\* one script over any folder or argument list, with any outputs of earlier
\* runs in place
InitCv == SfOff /\ TgOff /\ UrlOff /\ TrOff /\ DlOff /\ YtOff /\ CvInit

SpecCv == InitCv /\ [][CvNext]_vars

\* the ffmpeg invocations of the current run
FfmpegCalls == UNION {Range(cv_log[i].calls) : i \in DOMAIN cv_log}

\* C12: in convert_all_webinar.py and in convert.py TELEGRAM mode an output file
\* that exists when the run begins is not regenerated, and a run that follows a
\* run which finished every source invokes ffmpeg for no source.
C12_FinishedWorkNotRedone ==
    cv_script \in {"convert_all_webinar", "TELEGRAM"} =>
        /\ \A c \in FfmpegCalls : c.dst \notin cv_orig
        /\ cv_runs >= 2 /\ cv_prev = 0 => FfmpegCalls = {}

\* the input of a log entry failed: it is no file, ffmpeg exited non-zero, or the
\* script found the output missing or empty
InputFailed(entry) ==
    \/ entry.src.kind # "file"
    \/ \E c \in Range(entry.calls) :
          c.out = "failed" \/ (cv_script # "convert_to_mp3" /\ c.out = "empty")

\* C15: when the process has exited the loop has reached every input, in order,
\* and the exit code is 0 if no input failed and 1 otherwise.
C15_FailureDoesNotStopTheRun ==
    cv_pc = "exited" =>
        /\ Len(cv_log) = Len(cv_inputs)
        /\ \A i \in DOMAIN cv_log : cv_log[i].src = cv_inputs[i]
        /\ cv_exit = IF \E i \in DOMAIN cv_log : InputFailed(cv_log[i]) THEN 1 ELSE 0

(***************************************************************************)
(* telegram_screenshot.py: normal mode and the configuration               *)
(***************************************************************************)
Photos == {i \in DOMAIN tg_sent : tg_sent[i].kind = "photo"}

\* C13: in normal mode a photo is sent only after take_screenshot was called, and
\* it is the image this run saved; without a config file nothing is captured or
\* sent.
C13_SendsOnlyThisRunsScreenshot ==
    /\ \A i \in Photos : tg_shot /\ tg_sent[i].image = tg_runs
    /\ ~LinkGiven(tg_link) /\ tg_config = NoConfig => ~tg_shot /\ Photos = {}

MaxConfigId == 30    \* largest absolute value of the ids of the round trip

ConfigRoundTrip ==
    \A chat_id, thread_id \in (-MaxConfigId)..MaxConfigId :
        load_config(save_config(chat_id, thread_id)) = <<chat_id, thread_id>>

\* C18: load_config() after save_config(chat_id, thread_id) returns (chat_id,
\* thread_id); the config file holds the ids of the most recent completed
\* save_config, whatever became of the test message, and normal mode sends to them.
C18_LastConfigurationWins ==
    /\ ConfigRoundTrip
    /\ tg_config = NoConfig <=> tg_saved = <<>>
    /\ tg_config # NoConfig => load_config(tg_config) = tg_saved[Len(tg_saved)]
    /\ LinkGiven(tg_link) /\ tg_pc \in {"test_message", "idle"} /\ tg_ids # NoConfig =>
          /\ ~parse_telegram_topic_url(tg_link).raised
          /\ tg_ids = <<parse_telegram_topic_url(tg_link).chat_id,
                        parse_telegram_topic_url(tg_link).thread_id>>
          /\ load_config(tg_config) = tg_ids
    /\ \A i \in Photos :
          <<tg_sent[i].chat_id, tg_sent[i].thread_id>> = tg_saved[Len(tg_saved)]

C18_Witness ==
    /\ Len(tg_saved) = 2
    /\ tg_saved[1] # tg_saved[2]
    /\ Photos # {}
    /\ \A i \in Photos : <<tg_sent[i].chat_id, tg_sent[i].thread_id>> = tg_saved[2]

(***************************************************************************)
(* SpeakFlow: quit and start                                               *)
(***************************************************************************)
\* C16: if the recorder was capturing when quit() was called, it has been stopped
\* when the process exits.
C16_QuitStopsCapture ==
    main_pc = "exited" /\ quit_capturing => ~is_recording /\ ~stream

Transcribed(i) == "transcribe" \in Range(threads[i].log)

\* C17: the listener is started only with the model loaded and the tray only with
\* the listener running; a failed load_model or a failed listener start ends
\* start() with nothing further started; Transcriber.transcribe is called only
\* with a model.
C17_ModelThenListenerThenTray ==
    /\ listener # "none" => model
    /\ icon # "none" => model /\ listener # "none"
    /\ main_pc \in {"tray_start", "tray_run"} => model /\ listener = "running"
    /\ ev = "load_model" /\ ~model =>
          main_pc = "exited" /\ listener = "none" /\ icon = "none"
    /\ ev = "start_listener" /\ listener = "none" =>
          main_pc = "exited" /\ icon = "none"
    /\ \A i \in DOMAIN threads : Transcribed(i) => model

C17_Witness ==
    /\ model
    /\ listener = "running"
    /\ icon = "running"
    /\ \E i \in DOMAIN threads : Transcribed(i) /\ threads[i].text # None

====
